---- MODULE Spec2Model ----
(***************************************************************************)
(* Optimus Cache Prime 2.7 (ocp.go): sitemap resolution, priority sort and  *)
(* throttled priming, with the optional uncached-page limit (maxStopper).   *)
(*                                                                          *)
(* One run of main() is modelled.  The goroutines are main, one anonymous   *)
(* goroutine per child sitemap, one primeUrl goroutine per URL entry and    *)
(* maxStopper.  Channels: sem (buffered, capacity throttle), ch (buffered,  *)
(* capacity = number of children), one (unbuffered).                        *)
(***************************************************************************)
EXTENDS Integers, Sequences, FiniteSets, TLC

\* ---------------------------------------------------------------- bounds
MaxThrottle == 2
MaxMax == 2
MaxChildren == 2
MaxUrls == 3
MaxPrio == 2
MaxArgs == 2

Prios == 1..MaxPrio
Tasks == 1..MaxUrls
Children == 1..MaxChildren

VARIABLES
  throttle,     \* flag -c
  max,          \* flag -max
  localDir,     \* flag -l is set (localDir != "")
  printUrls,    \* flag -print
  primeUrls,    \* flag -urls
  args,         \* flag.Args() in urls mode
  audit,        \* flag -a
  verbose,      \* flag -v; main clears it in audit mode
  nowarn,       \* flag -no-warn; main sets it in audit mode
  rootDoc,      \* what the root location holds
  childDocs,    \* what each child location holds
  status,       \* "running" | "returned" | "stopped" | "panic"
  mainpc,       \* position of main
  idx,          \* loop index of the loop main is in
  urlset,       \* main's urlset (*Urlset)
  err,          \* main's err
  errorPrinted, \* "Error:" line was printed
  printed,      \* lines emitted by print mode
  sem,          \* number of values buffered in sem
  ch,           \* contents of ch
  cpc,          \* position of each child goroutine
  wg,           \* WaitGroup counter
  tpc,          \* position of each primeUrl goroutine
  cache,        \* what the local-cache look-up of a task met
  found,        \* primeUrl's found
  res,          \* outcome of the task's GET
  gets,         \* number of calls of get(u.Loc) a task has made
  signals,      \* number of values a task has sent on one
  spc,          \* position of maxStopper
  count,        \* maxStopper's count
  fetches,      \* fetches of the root (0) and of each sitemap entry of the root
  nested,       \* fetches of sitemap entries found in a child document
  vlog,         \* lines logged under `if verbose`
  wlog,         \* lines logged under `if !nowarn`
  alog,         \* audit report lines printed for each task
  clog          \* "Error getting Urlset from sitemap" lines

vars == <<throttle, max, localDir, printUrls, primeUrls, args, audit, verbose,
          nowarn, rootDoc, childDocs, status, mainpc, idx, urlset, err,
          errorPrinted, printed, sem, ch, cpc, wg, tpc, cache, found, res, gets,
          signals, spc, count, fetches, nested, vlog, wlog, alog, clog>>

config == <<throttle, max, localDir, printUrls, primeUrls, args, audit, rootDoc,
            childDocs>>
modeVars == <<verbose, nowarn>>
fetchVars == <<fetches, nested>>
logVars == <<vlog, wlog, alog, clog>>
primeVars == <<tpc, cache, found, res, gets, signals>>
stopVars == <<spc, count>>
outVars == <<errorPrinted, printed>>

\* ------------------------------------------------------------- data types
\* A Url value: Loc is <<document, position>>, Priority an integer weight.
Url(d, i, p) == [Loc |-> <<d, i>>, Priority |-> p]

UrlSeqs(d, n) == { [i \in 1..n |-> Url(d, i, f[i])] : f \in [1..n -> Prios] }

UrlLists(d, n) == UNION { UrlSeqs(d, k) : k \in 0..n }

\* A nil *Urlset.
NilUrlset == [isNil |-> TRUE, Sitemap |-> << >>, Url |-> << >>]

Urlset(s, u) == [isNil |-> FALSE, Sitemap |-> s, Url |-> u]

\* Documents: state is "ok", "fetcherr" (open/GET/status/gzip failed) or
\* "decodeerr" (the XML decoder returned an error).
Doc(st, s, u) == [state |-> st, Sitemap |-> s, Url |-> u]

NoDoc == Doc("fetcherr", << >>, << >>)

\* n entries of document d whose priorities are fixed by their place.
FixedUrls(d, n) == [i \in 1..n |-> Url(d, i, ((d + i) % MaxPrio) + 1)]

\* The documents the root location can hold: leaf sitemaps with entries of every
\* priority, and indexes of every shape.
RootDocs ==
  {NoDoc} \cup
  { Doc(st, << >>, u) : st \in {"ok", "decodeerr"}, u \in UrlLists(0, MaxUrls) } \cup
  { Doc("ok", [i \in 1..k |-> i], FixedUrls(0, n)) : k \in 1..MaxChildren, n \in 0..MaxUrls }

\* The documents of the shape the repository's tests use: a leaf sitemap whose
\* entries are listed in ascending priority, or an index without entries of its own.
TestRootDocs ==
  {NoDoc, Doc("decodeerr", << >>, << >>)} \cup
  { Doc("ok", << >>, [i \in 1..n |-> Url(0, i, i)]) : n \in 0..MaxUrls } \cup
  { Doc("ok", [i \in 1..k |-> i], << >>) : k \in 1..MaxChildren }

\* An index that names the same child location twice.
DupRootDocs == { Doc("ok", <<1, 1>>, << >>) }

\* What child location c can hold.  A failing child's content is never read.
\* In the tests' shape child c holds at most one entry, of priority c.  Among
\* all documents a child can itself hold a sitemap entry.
ChildDocsOf(c, all) ==
  {NoDoc, Doc("decodeerr", << >>, << >>)} \cup
  (IF all THEN { Doc("ok", << >>, FixedUrls(c, n)) : n \in 0..MaxUrls } \cup
               { Doc("ok", <<c>>, FixedUrls(c, 1)) }
          ELSE { Doc("ok", << >>, << >>), Doc("ok", << >>, <<Url(c, 1, c)>>) })

\* The highest child location a list of sitemap entries names.
HighestLoc(s) ==
  IF s = << >> THEN 0
  ELSE CHOOSE m \in { s[i] : i \in DOMAIN s } : \A i \in DOMAIN s : s[i] <= m

\* The documents of the child locations of a root with k sitemap entries, holding
\* at most b URL entries together; locations the root does not name hold nothing.
RECURSIVE ChildDocSeqs(_, _, _, _)
ChildDocSeqs(c, k, b, all) ==
  IF c > MaxChildren THEN { << >> }
  ELSE UNION { { <<d>> \o rest : rest \in ChildDocSeqs(c + 1, k, b - Len(d.Url), all) } :
               d \in (IF c <= k THEN { x \in ChildDocsOf(c, all) : Len(x.Url) <= b }
                                ELSE {NoDoc}) }

\* The command-line arguments of urls mode: <<scheme, rest>>, the scheme being
\* absent, "http://" or "https://" in turn, from the first or from the second.
Schemes == <<"", "http://", "https://">>

ArgLists ==
  { [i \in 1..n |-> <<Schemes[((i + o - 1) % Len(Schemes)) + 1], i>>] :
      n \in 1..MaxArgs, o \in 0..1 }

\* ------------------------------------------------------- pure functions
\* A urlSlice that takes the arguments as they are.
urlSliceNoPrefix(a) == [i \in 1..Len(a) |-> [Loc |-> a[i], Priority |-> 0]]

\* urlSlice: "http://" is put before an argument that has neither scheme; the
\* entry's Priority is left at its zero value.
urlSlice(a) ==
  [i \in 1..Len(a) |->
     [Loc |-> IF a[i][1] # "http://" /\ a[i][1] # "https://"
              THEN <<"http://", a[i][2]>>
              ELSE a[i],
      Priority |-> 0]]

\* Less with the comparison turned round.
LessAscending(u, i, j) == u[i].Priority < u[j].Priority

\* Urlset.Less: descending priority.
Less(u, i, j) == u[i].Priority > u[j].Priority

\* Urlset.Swap.
Swap(u, i, j) == [u EXCEPT ![i] = u[j], ![j] = u[i]]

\* sort.Sort's inner loop: for j := i; j > 0 && Less(j, j-1); j-- { Swap(j, j-1) }
\* (indices here are 1-based).
RECURSIVE SiftDown(_, _)
SiftDown(u, j) ==
  IF j > 1 /\ Less(u, j, j - 1) THEN SiftDown(Swap(u, j, j - 1), j - 1) ELSE u

\* sort.Sort(urlset): on a slice this short every Go release runs a plain
\* insertion sort through Len, Less and Swap.
RECURSIVE InsertFrom(_, _)
InsertFrom(u, i) ==
  IF i > Len(u) THEN u ELSE InsertFrom(SiftDown(u, i), i + 1)

Sort(u) == InsertFrom(u, 2)

\* getUrlsFromSitemap up to and including the decode: <<*Urlset, err>>.
Decode(doc) ==
  IF doc.state = "fetcherr" THEN [urlset |-> NilUrlset, err |-> TRUE]
  ELSE [urlset |-> Urlset(doc.Sitemap, doc.Url), err |-> doc.state = "decodeerr"]

\* The value a child goroutine sends on ch.
ChildResult(doc) ==
  IF Decode(doc).err THEN NilUrlset ELSE Decode(doc).urlset

\* The merge appending the child's entries last to first.
MergeReversed(u, child) ==
  [u EXCEPT !.Url = u.Url \o [i \in 1..Len(child.Url) |->
                                child.Url[Len(child.Url) + 1 - i]]]

\* The merge putting the child's entries before those already there.
MergePrepend(u, child) == [u EXCEPT !.Url = child.Url \o u.Url]

\* The merge assigning the child's entries instead of appending them.
MergeOverwrite(u, child) == [u EXCEPT !.Url = child.Url]

\* urlset.Url = append(urlset.Url, childUrlset.Url...)
Merge(u, child) == [u EXCEPT !.Url = u.Url \o child.Url]

\* A gate that lets one goroutine too many through.
SemCanSendOffByOne == sem <= throttle

\* A send on sem that goes through on a channel without a buffer.
SemCanSendUnbuffered == sem < throttle \/ throttle = 0

\* sem <- true can proceed: the buffer has room.  With capacity 0 a send needs
\* a goroutine waiting in <-sem, and none can exist before a first send.
SemCanSend == sem < throttle

\* A look-up that skips the URL it cannot parse.
LocalCacheHitOnMalformed(c) == localDir /\ c \in {"exists", "malformed"}

\* A look-up that takes every outcome but a missing file for a hit.
LocalCacheHitUnlessMissing(c) == localDir /\ c # "missing"

\* primeUrl's found after the local-cache look-up.
LocalCacheHit(c) == localDir /\ c = "exists"

\* ------------------------------------------------------------------ Init
\* The state of the program when main starts.
Start ==
  /\ status = "running"
  /\ mainpc = "resolve"
  /\ idx = 0
  /\ urlset = NilUrlset
  /\ err = FALSE
  /\ errorPrinted = FALSE
  /\ printed = << >>
  /\ sem = 0
  /\ ch = << >>
  /\ cpc = [c \in Children |-> "idle"]
  /\ wg = 0
  /\ tpc = [t \in Tasks |-> "idle"]
  /\ cache = [t \in Tasks |-> "none"]
  /\ found = [t \in Tasks |-> FALSE]
  /\ res = [t \in Tasks |-> "none"]
  /\ gets = [t \in Tasks |-> 0]
  /\ signals = [t \in Tasks |-> 0]
  /\ spc = "off"
  /\ count = 0
  /\ fetches = [l \in 0..MaxChildren |-> 0]
  /\ nested = 0
  /\ vlog = 0
  /\ wlog = 0
  /\ alog = [t \in Tasks |-> 0]
  /\ clog = 0

\* What the program reads: the arguments in urls mode, else the sitemap documents.
Inputs(roots, b, all) ==
  IF primeUrls
  THEN /\ args \in ArgLists
       /\ rootDoc = NoDoc
       /\ childDocs = [c \in Children |-> NoDoc]
  ELSE /\ args = << >>
       /\ rootDoc \in roots
       /\ childDocs \in ChildDocSeqs(1, HighestLoc(rootDoc.Sitemap),
                                     b - Len(rootDoc.Url), all)

\* Every combination of the flags, on documents of the tests' shape.
Init ==
  /\ throttle \in 0..MaxThrottle
  /\ max \in 0..MaxMax
  /\ localDir \in BOOLEAN
  /\ printUrls \in BOOLEAN
  /\ primeUrls \in BOOLEAN
  /\ audit = FALSE /\ verbose = FALSE /\ nowarn = TRUE
  /\ Inputs(TestRootDocs \cup DupRootDocs, MaxUrls, FALSE)
  /\ Start

\* Every document, for the part of the run that reads them: resolution and sort.
ResolveInit ==
  /\ throttle \in 0..MaxThrottle
  /\ max = 0
  /\ localDir = FALSE
  /\ printUrls \in BOOLEAN
  /\ primeUrls = FALSE
  /\ audit = FALSE /\ verbose = FALSE /\ nowarn = TRUE
  /\ Inputs(RootDocs, MaxUrls, TRUE)
  /\ Start

\* Every combination of -v, -a and -no-warn, with the gate open.
LogInit ==
  /\ throttle \in 1..MaxThrottle
  /\ max \in 0..1
  /\ localDir = FALSE
  /\ printUrls = FALSE
  /\ primeUrls \in BOOLEAN
  /\ audit \in BOOLEAN /\ verbose \in BOOLEAN /\ nowarn \in BOOLEAN
  /\ Inputs(TestRootDocs, MaxUrls, FALSE)
  /\ Start

Running == status = "running"

\* --------------------------------------------------------------- actions
\* The lines getUrlsFromSitemap logs under verbose while it opens a path: one
\* for a http(s) path, one for a .gz path that was opened.
FetchLog(remote, gz) == (IF remote THEN 1 ELSE 0) + (IF gz THEN 1 ELSE 0)

\* getUrlsFromSitemap: err == nil && follow && len(urlset.Sitemap) > 0.
IsSitemapindex(e, follow, u) == ~e /\ follow /\ Len(u.Sitemap) > 0

\* main: getUrlsFromSitemap(path, true).
RootFollow == TRUE

\* A child resolved like the root.
ChildFollowOn == TRUE

\* child goroutine: getUrlsFromSitemap(loc, false).
ChildFollow == FALSE

\* main: getUrlsFromSitemap(path, true) up to the decode and the index test.
RootResolve ==
  /\ Running /\ mainpc = "resolve" /\ ~primeUrls
  /\ fetches' = [fetches EXCEPT ![0] = @ + 1]
  /\ LET r == Decode(rootDoc) IN
       IF IsSitemapindex(r.err, RootFollow, r.urlset)
       THEN /\ urlset' = r.urlset
            /\ err' = FALSE
            /\ mainpc' = "spawn"
            /\ idx' = 1
            /\ \E remote, gz \in BOOLEAN :
                 vlog' = vlog + (IF verbose THEN FetchLog(remote, gz) + 1 ELSE 0)
       ELSE /\ urlset' = r.urlset
            /\ err' = r.err
            /\ mainpc' = "sort"
            /\ idx' = 0
            /\ \E remote, gz \in BOOLEAN :
                 vlog' = vlog + (IF verbose THEN FetchLog(remote, gz) ELSE 0)
  /\ UNCHANGED <<config, modeVars, status, outVars, sem, ch, cpc, wg, primeVars,
                 stopVars, nested, wlog, alog, clog>>

\* The spawn loop without its sem <- true.
SpawnChildNoAcquire ==
  /\ Running /\ mainpc = "spawn"
  /\ vlog' = vlog + (IF verbose THEN 1 ELSE 0)
  /\ cpc' = [cpc EXCEPT ![idx] = "run"]
  /\ IF idx = Len(urlset.Sitemap)
     THEN mainpc' = "merge" /\ idx' = 0
     ELSE mainpc' = "spawn" /\ idx' = idx + 1
  /\ UNCHANGED <<config, modeVars, status, urlset, err, outVars, sem, ch, wg,
                 primeVars, stopVars, fetchVars, wlog, alog, clog>>

\* main: one iteration of the loop over urlset.Sitemap: sem <- true; go func.
SpawnChild ==
  /\ Running /\ mainpc = "spawn"
  /\ SemCanSend
  /\ sem' = sem + 1
  /\ vlog' = vlog + (IF verbose THEN 1 ELSE 0)
  /\ cpc' = [cpc EXCEPT ![idx] = "run"]
  /\ IF idx = Len(urlset.Sitemap)
     THEN mainpc' = "merge" /\ idx' = 0
     ELSE mainpc' = "spawn" /\ idx' = idx + 1
  /\ UNCHANGED <<config, modeVars, status, urlset, err, outVars, ch, wg, primeVars,
                 stopVars, fetchVars, wlog, alog, clog>>

\* child goroutine of the c-th sitemap entry: getUrlsFromSitemap(loc, false), then
\* ch <- nil or ch <- ourlset.  Were the call to follow, the sitemap entries of
\* the child document would be fetched in turn: nested counts those fetches.
ChildResolve(c) ==
  /\ Running /\ cpc[c] = "run"
  /\ LET doc == childDocs[urlset.Sitemap[c]]
         r == Decode(doc)
         follows == IsSitemapindex(r.err, ChildFollow, r.urlset)
     IN /\ fetches' = [fetches EXCEPT ![c] = @ + 1]
        /\ nested' = nested + (IF follows THEN Len(r.urlset.Sitemap) ELSE 0)
        /\ ch' = Append(ch, ChildResult(doc))
        /\ clog' = clog + (IF r.err THEN 1 ELSE 0)
        /\ \E remote, gz \in BOOLEAN :
             vlog' = vlog + (IF verbose
                             THEN FetchLog(remote, gz) + (IF follows THEN 1 ELSE 0)
                             ELSE 0)
  /\ cpc' = [cpc EXCEPT ![c] = "release"]
  /\ UNCHANGED <<config, modeVars, status, mainpc, idx, urlset, err, outVars, sem,
                 wg, primeVars, stopVars, wlog, alog>>

\* A child goroutine that gives its slot back only after a success.
ChildReleaseOnSuccess(c) ==
  /\ Running /\ cpc[c] = "release"
  /\ childDocs[urlset.Sitemap[c]].state = "ok"
  /\ sem' = sem - 1
  /\ cpc' = [cpc EXCEPT ![c] = "done"]
  /\ UNCHANGED <<config, modeVars, status, mainpc, idx, urlset, err, outVars, ch,
                 wg, primeVars, stopVars, fetchVars, logVars>>

\* child goroutine: <-sem.
ChildRelease(c) ==
  /\ Running /\ cpc[c] = "release"
  /\ sem' = sem - 1
  /\ cpc' = [cpc EXCEPT ![c] = "done"]
  /\ UNCHANGED <<config, modeVars, status, mainpc, idx, urlset, err, outVars, ch,
                 wg, primeVars, stopVars, fetchVars, logVars>>

\* A merge loop that stops after the first result it receives.
MergeChildFirstOnly ==
  /\ Running /\ mainpc = "merge"
  /\ Len(ch) > 0
  /\ ch' = Tail(ch)
  /\ IF Head(ch).isNil
     THEN /\ status' = "panic"
          /\ UNCHANGED <<urlset, mainpc, idx>>
     ELSE /\ urlset' = Merge(urlset, Head(ch))
          /\ status' = status
          /\ mainpc' = "sort" /\ idx' = 0
  /\ UNCHANGED <<config, modeVars, err, outVars, sem, cpc, wg, primeVars, stopVars,
                 fetchVars, logVars>>

\* main: one iteration of the merge loop: childUrlset := <-ch; append.
\* childUrlset.Url on a nil childUrlset is a nil pointer dereference.
MergeChild ==
  /\ Running /\ mainpc = "merge"
  /\ Len(ch) > 0
  /\ ch' = Tail(ch)
  /\ IF Head(ch).isNil
     THEN /\ status' = "panic"
          /\ UNCHANGED <<urlset, mainpc, idx>>
     ELSE /\ urlset' = Merge(urlset, Head(ch))
          /\ status' = status
          /\ IF idx + 1 = Len(urlset.Sitemap)
             THEN mainpc' = "sort" /\ idx' = 0
             ELSE mainpc' = "merge" /\ idx' = idx + 1
  /\ UNCHANGED <<config, modeVars, err, outVars, sem, cpc, wg, primeVars, stopVars,
                 fetchVars, logVars>>

\* main from `if audit` on, with us the *Urlset it holds: audit clears verbose
\* and sets nowarn; then the error report, print mode, or go maxStopper() and
\* primeUrlset's verbose line and wg.Add(len(urlset.Url)).
MainAfter(us) ==
  /\ urlset' = us
  /\ verbose' = (verbose /\ ~audit)
  /\ nowarn' = (nowarn \/ audit)
  /\ IF err
     THEN /\ errorPrinted' = TRUE
          /\ status' = "returned"
          /\ mainpc' = "done"
          /\ UNCHANGED <<idx, printed, wg, stopVars, vlog>>
     ELSE IF printUrls
     THEN /\ printed' = [i \in 1..Len(us.Url) |-> us.Url[i].Loc]
          /\ status' = "returned"
          /\ mainpc' = "done"
          /\ UNCHANGED <<idx, errorPrinted, wg, stopVars, vlog>>
     ELSE /\ spc' = IF max > 0 THEN "recv" ELSE "off"
          /\ vlog' = vlog + (IF verbose /\ ~audit THEN 1 ELSE 0)
          /\ wg' = wg + Len(us.Url)
          /\ mainpc' = IF Len(us.Url) = 0 THEN "wait" ELSE "dispatch"
          /\ idx' = 1
          /\ UNCHANGED <<status, outVars, count>>

\* main after getUrlsFromSitemap returned: sort.Sort(urlset), then the rest of main.
\* sort.Sort on a nil *Urlset calls the value method Len through a nil pointer.
MainSort ==
  /\ Running /\ mainpc = "sort"
  /\ IF urlset.isNil
     THEN /\ status' = "panic"
          /\ UNCHANGED <<urlset, modeVars, mainpc, idx, outVars, wg, stopVars, vlog>>
     ELSE MainAfter([urlset EXCEPT !.Url = Sort(urlset.Url)])
  /\ UNCHANGED <<config, err, sem, ch, cpc, primeVars, fetchVars, wlog, alog, clog>>

\* main in urls mode: urlset = &Urlset{Url: urlSlice(flag.Args())}, then the rest
\* of main; nothing is fetched and nothing is sorted.
MainUrls ==
  /\ Running /\ mainpc = "resolve" /\ primeUrls
  /\ MainAfter(Urlset(<< >>, urlSlice(args)))
  /\ UNCHANGED <<config, err, sem, ch, cpc, primeVars, fetchVars, wlog, alog, clog>>

\* A dispatch loop that ranges over urlset.Url from its last entry.
DispatchBackwards ==
  /\ Running /\ mainpc = "dispatch"
  /\ SemCanSend
  /\ sem' = sem + 1
  /\ tpc' = [tpc EXCEPT ![Len(urlset.Url) + 1 - idx] = "start"]
  /\ IF idx = Len(urlset.Url)
     THEN mainpc' = "wait" /\ idx' = 0
     ELSE mainpc' = "dispatch" /\ idx' = idx + 1
  /\ UNCHANGED <<config, modeVars, status, urlset, err, outVars, ch, cpc, wg, cache,
                 found, res, gets, signals, stopVars, fetchVars, logVars>>

\* The dispatch loop without its sem <- true.
DispatchNoAcquire ==
  /\ Running /\ mainpc = "dispatch"
  /\ tpc' = [tpc EXCEPT ![idx] = "start"]
  /\ IF idx = Len(urlset.Url)
     THEN mainpc' = "wait" /\ idx' = 0
     ELSE mainpc' = "dispatch" /\ idx' = idx + 1
  /\ UNCHANGED <<config, modeVars, status, urlset, err, outVars, sem, ch, cpc, wg,
                 cache, found, res, gets, signals, stopVars, fetchVars, logVars>>

\* primeUrlset: one iteration of the loop over urlset.Url: sem <- true; go primeUrl(u).
Dispatch ==
  /\ Running /\ mainpc = "dispatch"
  /\ SemCanSend
  /\ sem' = sem + 1
  /\ tpc' = [tpc EXCEPT ![idx] = "start"]
  /\ IF idx = Len(urlset.Url)
     THEN mainpc' = "wait" /\ idx' = 0
     ELSE mainpc' = "dispatch" /\ idx' = idx + 1
  /\ UNCHANGED <<config, modeVars, status, urlset, err, outVars, ch, cpc, wg, cache,
                 found, res, gets, signals, stopVars, fetchVars, logVars>>

\* A wait that returns with one task outstanding.
WaitDoneOffByOne == wg <= 1

\* wg.Wait() can return.
WaitDone == wg = 0

\* primeUrlset: wg.Wait() returns, primeUrlset returns and main returns.
WgWait ==
  /\ Running /\ mainpc = "wait"
  /\ WaitDone
  /\ mainpc' = "done"
  /\ status' = "returned"
  /\ UNCHANGED <<config, modeVars, idx, urlset, err, outVars, sem, ch, cpc, wg,
                 primeVars, stopVars, fetchVars, logVars>>

\* A primeUrl whose cache hit goes on to the signal on one.
PrimeStartSignalsOnHit(t) ==
  /\ Running /\ tpc[t] = "start"
  /\ \E c \in (IF localDir THEN {"exists", "missing", "malformed"} ELSE {"none"}) :
       /\ cache' = [cache EXCEPT ![t] = c]
       /\ found' = [found EXCEPT ![t] = LocalCacheHit(c)]
       /\ IF LocalCacheHit(c)
          THEN /\ tpc' = [tpc EXCEPT ![t] = IF max > 0 THEN "signal" ELSE "wgdone"]
               /\ gets' = gets
          ELSE /\ tpc' = [tpc EXCEPT ![t] = "inflight"]
               /\ gets' = [gets EXCEPT ![t] = @ + 1]
  /\ vlog' = vlog + (IF verbose THEN 1 ELSE 0)
  /\ UNCHANGED <<config, modeVars, status, mainpc, idx, urlset, err, outVars, sem,
                 ch, cpc, wg, res, signals, stopVars, fetchVars, wlog, alog, clog>>

\* primeUrl: the local-cache look-up and, without a hit, the start of get(u.Loc);
\* under verbose either branch logs one line ("Exists" or "Get").
PrimeStart(t) ==
  /\ Running /\ tpc[t] = "start"
  /\ \E c \in (IF localDir THEN {"exists", "missing", "malformed"} ELSE {"none"}) :
       /\ cache' = [cache EXCEPT ![t] = c]
       /\ found' = [found EXCEPT ![t] = LocalCacheHit(c)]
       /\ IF LocalCacheHit(c)
          THEN /\ tpc' = [tpc EXCEPT ![t] = "wgdone"]
               /\ gets' = gets
          ELSE /\ tpc' = [tpc EXCEPT ![t] = "inflight"]
               /\ gets' = [gets EXCEPT ![t] = @ + 1]
  /\ vlog' = vlog + (IF verbose THEN 1 ELSE 0)
  /\ UNCHANGED <<config, modeVars, status, mainpc, idx, urlset, err, outVars, sem,
                 ch, cpc, wg, res, signals, stopVars, fetchVars, wlog, alog, clog>>

\* The signal sent only when the GET returned a response.
SendsSignalUnlessError(o) == max > 0 /\ o # "error"

\* A signal sent after every failed GET, limit or no limit.
SendsSignalOnFailure(o) == max > 0 \/ o # "200"

\* primeUrl sends on one after a GET with outcome o.
SendsSignal(o) == max > 0

\* primeUrl logs a warning after a GET with outcome o: "Error priming" or
\* "Bad response".
Warns(o) == ~nowarn /\ o # "200"

\* primeUrl prints the audit line after a GET with outcome o: only in the branch
\* that has a response.
Audits(o) == audit /\ o # "error"

\* A primeUrl that starts over after a transport error.
PrimeFinishRetry(t) ==
  /\ Running /\ tpc[t] = "inflight"
  /\ \E o \in {"200", "non200", "error"} :
       /\ res' = [res EXCEPT ![t] = o]
       /\ tpc' = [tpc EXCEPT ![t] = IF o = "error" THEN "start"
                                   ELSE IF SendsSignal(o) THEN "signal" ELSE "wgdone"]
       /\ wlog' = wlog + (IF Warns(o) THEN 1 ELSE 0)
       /\ alog' = [alog EXCEPT ![t] = @ + (IF Audits(o) THEN 1 ELSE 0)]
  /\ cache' = [cache EXCEPT ![t] = "none"]
  /\ UNCHANGED <<config, modeVars, status, mainpc, idx, urlset, err, outVars, sem,
                 ch, cpc, wg, found, gets, signals, stopVars, fetchVars, vlog, clog>>

\* primeUrl: get(u.Loc) returns with a 200, another status or a transport error.
PrimeFinish(t) ==
  /\ Running /\ tpc[t] = "inflight"
  /\ \E o \in {"200", "non200", "error"} :
       /\ res' = [res EXCEPT ![t] = o]
       /\ tpc' = [tpc EXCEPT ![t] = IF SendsSignal(o) THEN "signal" ELSE "wgdone"]
       /\ wlog' = wlog + (IF Warns(o) THEN 1 ELSE 0)
       /\ alog' = [alog EXCEPT ![t] = @ + (IF Audits(o) THEN 1 ELSE 0)]
  /\ cache' = [cache EXCEPT ![t] = "none"]
  /\ UNCHANGED <<config, modeVars, status, mainpc, idx, urlset, err, outVars, sem,
                 ch, cpc, wg, found, gets, signals, stopVars, fetchVars, vlog, clog>>

\* A stopper that exits one signal late.
StopperNextLate(n) == IF n = max + 1 THEN "exiting" ELSE "recv"

\* A comparison that stops one signal before the limit.
StopperNextEarly(n) == IF n + 1 >= max THEN "exiting" ELSE "recv"

\* maxStopper after count++: the comparison with max.
StopperNext(n) == IF n = max THEN "exiting" ELSE "recv"

\* A send on one that goes through once maxStopper has stopped receiving, as
\* on a channel with a buffer.
PrimeSignalBuffered(t) ==
  /\ Running /\ tpc[t] = "signal"
  /\ spc \in {"recv", "exiting"}
  /\ signals' = [signals EXCEPT ![t] = @ + 1]
  /\ count' = IF spc = "recv" THEN count + 1 ELSE count
  /\ spc' = IF spc = "recv" THEN StopperNext(count + 1) ELSE spc
  /\ tpc' = [tpc EXCEPT ![t] = "wgdone"]
  /\ UNCHANGED <<config, modeVars, status, mainpc, idx, urlset, err, outVars, sem,
                 ch, cpc, wg, cache, found, res, gets, fetchVars, logVars>>

\* primeUrl's one <- true meets maxStopper's <-one; maxStopper does count++ and
\* compares count with max.
PrimeSignal(t) ==
  /\ Running /\ tpc[t] = "signal"
  /\ spc = "recv"
  /\ signals' = [signals EXCEPT ![t] = @ + 1]
  /\ count' = count + 1
  /\ spc' = StopperNext(count + 1)
  /\ tpc' = [tpc EXCEPT ![t] = "wgdone"]
  /\ UNCHANGED <<config, modeVars, status, mainpc, idx, urlset, err, outVars, sem,
                 ch, cpc, wg, cache, found, res, gets, fetchVars, logVars>>

\* maxStopper: log.Println and os.Exit(0).
StopperExit ==
  /\ Running /\ spc = "exiting"
  /\ status' = "stopped"
  /\ spc' = "exited"
  /\ UNCHANGED <<config, modeVars, mainpc, idx, urlset, err, outVars, sem, ch, cpc,
                 wg, primeVars, count, fetchVars, logVars>>

\* A primeUrl that calls wg.Done() twice.
PrimeWgDoneTwice(t) ==
  /\ Running /\ tpc[t] = "wgdone"
  /\ wg' = wg - 2
  /\ tpc' = [tpc EXCEPT ![t] = "release"]
  /\ cache' = [cache EXCEPT ![t] = "none"]
  /\ found' = [found EXCEPT ![t] = FALSE]
  /\ res' = [res EXCEPT ![t] = "none"]
  /\ UNCHANGED <<config, modeVars, status, mainpc, idx, urlset, err, outVars, sem,
                 ch, cpc, gets, signals, stopVars, fetchVars, logVars>>

\* primeUrl: wg.Done().  Nothing reads the goroutine's locals after this.
PrimeWgDone(t) ==
  /\ Running /\ tpc[t] = "wgdone"
  /\ wg' = wg - 1
  /\ tpc' = [tpc EXCEPT ![t] = "release"]
  /\ cache' = [cache EXCEPT ![t] = "none"]
  /\ found' = [found EXCEPT ![t] = FALSE]
  /\ res' = [res EXCEPT ![t] = "none"]
  /\ UNCHANGED <<config, modeVars, status, mainpc, idx, urlset, err, outVars, sem,
                 ch, cpc, gets, signals, stopVars, fetchVars, logVars>>

\* A primeUrl that returns without its <-sem.
PrimeReleaseKeepsSlot(t) ==
  /\ Running /\ tpc[t] = "release"
  /\ sem' = sem
  /\ tpc' = [tpc EXCEPT ![t] = "done"]
  /\ UNCHANGED <<config, modeVars, status, mainpc, idx, urlset, err, outVars, ch,
                 cpc, wg, cache, found, res, gets, signals, stopVars, fetchVars,
                 logVars>>

\* primeUrl: <-sem and return.
PrimeRelease(t) ==
  /\ Running /\ tpc[t] = "release"
  /\ sem' = sem - 1
  /\ tpc' = [tpc EXCEPT ![t] = "done"]
  /\ UNCHANGED <<config, modeVars, status, mainpc, idx, urlset, err, outVars, ch,
                 cpc, wg, cache, found, res, gets, signals, stopVars, fetchVars,
                 logVars>>

Next ==
  \/ RootResolve
  \/ SpawnChild
  \/ \E c \in Children : ChildResolve(c)
  \/ \E c \in Children : ChildRelease(c)
  \/ MergeChild
  \/ MainSort
  \/ MainUrls
  \/ Dispatch
  \/ WgWait
  \/ \E t \in Tasks : PrimeStart(t)
  \/ \E t \in Tasks : PrimeFinish(t)
  \/ \E t \in Tasks : PrimeSignal(t)
  \/ StopperExit
  \/ \E t \in Tasks : PrimeWgDone(t)
  \/ \E t \in Tasks : PrimeRelease(t)

Spec == Init /\ [][Next]_vars

\* As long as some goroutine can take a step, one does: the scheduler runs a
\* goroutine that is runnable, and a request that was sent returns.
Fairness == WF_vars(Next)

FairSpec == Spec /\ Fairness

\* The run up to the call of primeUrlset.
ResolveNext ==
  \/ RootResolve
  \/ SpawnChild
  \/ \E c \in Children : ChildResolve(c)
  \/ \E c \in Children : ChildRelease(c)
  \/ MergeChild
  \/ MainSort

ResolveSpec == ResolveInit /\ [][ResolveNext]_vars

LogSpec == LogInit /\ [][Next]_vars

\* ------------------------------------------------- notions the claims use
\* The goroutines that were started after a sem <- true and have not done <-sem.
ChildHolding(c) == cpc[c] \in {"run", "release"}
TaskHolding(t) == tpc[t] \in {"start", "inflight", "signal", "wgdone", "release"}

SlotHolders ==
  Cardinality({ c \in Children : ChildHolding(c) }) +
  Cardinality({ t \in Tasks : TaskHolding(t) })

\* The root decoded to a sitemap index, which main follows.
IsIndexRun == ~primeUrls /\ rootDoc.state = "ok" /\ Len(rootDoc.Sitemap) > 0

RootChildren == 1..Len(rootDoc.Sitemap)

\* The document at the location the c-th sitemap entry of the root names.
ChildDoc(c) == childDocs[rootDoc.Sitemap[c]]

FailedChildren == { c \in RootChildren : ChildDoc(c).state # "ok" }

\* getUrlsFromSitemap(path, true) has returned to main.
Resolved == mainpc \in {"sort", "dispatch", "wait", "done"}

\* main has gone past sort.Sort.
Sorted == mainpc \in {"dispatch", "wait", "done"} /\ ~urlset.isNil

\* main called primeUrlset.
PrimeCalled == mainpc \in {"dispatch", "wait"} \/ (mainpc = "done" /\ ~err /\ ~printUrls)

\* primeUrlset returned.
PrimeReturned == mainpc = "done" /\ ~err /\ ~printUrls

\* The GET of task t has returned.
GetCompleted(t) == gets[t] = 1 /\ tpc[t] \in {"signal", "wgdone", "release", "done"}

\* maxStopper saw count == max.
Triggered == spc \in {"exiting", "exited"}

Locs(u) == { u[i].Loc : i \in 1..Len(u) }

\* The values sent on one by the tasks 1..n together.
RECURSIVE SignalsSent(_)
SignalsSent(n) == IF n = 0 THEN 0 ELSE signals[n] + SignalsSent(n - 1)

\* The fetches of child location l made for the c-th and later sitemap entries.
RECURSIVE FetchesOfLoc(_, _)
FetchesOfLoc(l, c) ==
  IF c > Len(rootDoc.Sitemap) THEN 0
  ELSE (IF rootDoc.Sitemap[c] = l THEN fetches[c] ELSE 0) + FetchesOfLoc(l, c + 1)

\* The entries of the root's children from the c-th on, in declaration order.
RECURSIVE ChildUrlsFrom(_)
ChildUrlsFrom(c) ==
  IF c > Len(rootDoc.Sitemap) THEN << >> ELSE ChildDoc(c).Url \o ChildUrlsFrom(c + 1)

\* The priming GETs issued so far by the tasks of the entries 1..n.
RECURSIVE GetsIssued(_)
GetsIssued(n) == IF n = 0 THEN 0 ELSE gets[n] + GetsIssued(n - 1)

\* The tasks whose look-up found no cached file: those that made a GET.
Misses == { t \in Tasks : gets[t] = 1 }

\* The entries of the children p[k], p[k+1], ... one list after the other.
RECURSIVE ChildUrlsIn(_, _)
ChildUrlsIn(p, k) ==
  IF k > Len(p) THEN << >> ELSE ChildDoc(p[k]).Url \o ChildUrlsIn(p, k + 1)

\* The orders in which the children of the index can deliver.
DeliveryOrders ==
  { p \in [RootChildren -> RootChildren] : \A i, j \in RootChildren : p[i] = p[j] => i = j }

\* ------------------------------------------------------------------ C1
\* C1: in every reachable state the goroutines holding a gate slot (child
\* resolutions and priming tasks together) number at most throttle, and each
\* of them holds one slot of sem: the running goroutines are exactly as many
\* as the values buffered in sem.
C1_GateBound == SlotHolders <= throttle /\ SlotHolders = sem

\* A child that has not released yet and a priming task share a full gate of 2
\* while the dispatcher waits for a slot.
C1_Witness ==
  /\ throttle = 2 /\ sem = 2 /\ mainpc = "dispatch"
  /\ \E c \in Children : ChildHolding(c)
  /\ \E t \in Tasks : TaskHolding(t)

\* ------------------------------------------------------------------ C2
\* C2 (as claimed): when a child of a followed index fails, the resolution still
\* completes (main does not crash in the merge loop) and the flattened collection
\* holds exactly the root's entries and those of the children that succeeded.
C2_ChildFailureTolerated ==
  (IsIndexRun /\ FailedChildren # {}) =>
     /\ ~(mainpc = "merge" /\ status = "panic")
     /\ Resolved =>
          Locs(urlset.Url) =
            Locs(rootDoc.Url) \cup
            UNION { Locs(ChildDoc(c).Url) : c \in RootChildren \ FailedChildren }

\* ------------------------------------------------------------------ C3
\* C3 (as claimed): with max > 0 and throttle >= 1, once max signals have been
\* sent to the counter no priming request is started any more.
C3_NoRequestAfterLimit ==
  [][(max > 0 /\ throttle >= 1 /\ count >= max) => gets' = gets]_vars

\* ------------------------------------------------------------------ C4
\* C4: with max > 0, a priming task without a local cache hit sends exactly one
\* value on one once its GET has returned, whatever the outcome of the GET; it
\* sends none before, and a task with a cache hit sends none.
C4_OneSignalPerFetch ==
  max > 0 =>
    \A t \in Tasks :
      /\ signals[t] <= 1
      /\ signals[t] = 1 => gets[t] = 1
      /\ (tpc[t] = "wgdone" /\ ~found[t]) =>
           (signals[t] = 1 /\ res[t] \in {"200", "non200", "error"})
      /\ (tpc[t] \in {"release", "done"} /\ gets[t] = 1) => signals[t] = 1
      /\ tpc[t] \in {"idle", "start", "inflight", "signal"} => signals[t] = 0

\* Two tasks have signalled, one after a transport error, one after a non-200.
C4_Witness ==
  \E t, v \in Tasks :
    /\ tpc[t] = "wgdone" /\ res[t] = "error" /\ signals[t] = 1
    /\ tpc[v] = "wgdone" /\ res[v] = "non200" /\ signals[v] = 1

\* ------------------------------------------------------------------ C5
\* C5: the look-up step of a priming task issues no request when a local-cache
\* directory is configured and the cached file exists, and one request
\* otherwise; no other step issues a request, so a task issues 0 or 1 in all.
C5_RequestsPerTask ==
  /\ [](\A t \in Tasks :
          /\ gets[t] <= 1
          /\ tpc[t] \in {"idle", "start"} => gets[t] = 0
          /\ tpc[t] \in {"inflight", "signal"} => gets[t] = 1)
  /\ [][\A t \in Tasks :
          gets'[t] - gets[t] =
            IF tpc[t] = "start" /\ tpc'[t] # "start"
               /\ ~(localDir /\ cache'[t] = "exists")
            THEN 1 ELSE 0]_vars

\* One task met its cached file and issued nothing while another, whose file is
\* missing, has its one request in flight.
C5_Witness ==
  \E t, v \in Tasks :
    /\ localDir
    /\ tpc[t] = "wgdone" /\ cache[t] = "exists" /\ gets[t] = 0
    /\ tpc[v] = "inflight" /\ cache[v] = "missing" /\ gets[v] = 1

\* ------------------------------------------------------------------ C6
\* C6 (as claimed): primeUrlset returns only when every URL entry's task has
\* called wg.Done, and unless the early stop triggers it eventually returns.
C6_ReturnsAfterAllTasks ==
  /\ [](PrimeReturned =>
          (wg = 0 /\ \A t \in 1..Len(urlset.Url) : tpc[t] \in {"release", "done"}))
  /\ (PrimeCalled ~> (PrimeReturned \/ Triggered))

\* C6 (amended): primeUrlset returns only when every URL entry's task has called
\* wg.Done; with throttle >= 1, unless the early stop triggers, it eventually
\* returns.
C6_ReturnsAfterAllTasksThrottled ==
  /\ [](PrimeReturned =>
          (wg = 0 /\ \A t \in 1..Len(urlset.Url) : tpc[t] \in {"release", "done"}))
  /\ ((PrimeCalled /\ throttle >= 1) ~> (PrimeReturned \/ Triggered))

\* primeUrlset has returned for three entries while the last task, past its
\* wg.Done, has not yet given its slot back.
C6_Witness ==
  /\ PrimeReturned /\ status = "returned" /\ Len(urlset.Url) = 3
  /\ \E t \in Tasks : tpc[t] = "release"
  /\ \A t \in Tasks : gets[t] = 1

\* ------------------------------------------------------------------ C7
\* C7: following an index of K children that each decode to one URL entry, with
\* throttle >= 1, never crashes or gets stuck and ends with exactly K entries,
\* the children's, in whatever order the children completed.
C7_IndexOfSingletons ==
  (/\ IsIndexRun /\ throttle >= 1 /\ rootDoc.Url = << >>
   /\ \A c \in RootChildren : ChildDoc(c).state = "ok" /\ Len(ChildDoc(c).Url) = 1)
  =>
   /\ status # "panic"
   /\ (mainpc \in {"spawn", "merge"}) => ENABLED ResolveNext
   /\ Resolved =>
        /\ Len(urlset.Url) = Len(rootDoc.Sitemap)
        /\ Locs(urlset.Url) = UNION { Locs(ChildDoc(c).Url) : c \in RootChildren }

\* Two children were merged in the reverse of their declaration order.
C7_Witness ==
  /\ IsIndexRun /\ Len(rootDoc.Sitemap) = 2 /\ mainpc = "sort"
  /\ Len(urlset.Url) = 2
  /\ urlset.Url[1].Loc = <<2, 1>> /\ urlset.Url[2].Loc = <<1, 1>>

\* ------------------------------------------------------------------ C8
\* C8 (as claimed): when the root sitemap cannot be fetched or decoded, the run
\* ends by printing the error, and no priming task is dispatched and no priming
\* request issued.
C8_RootFailureReported ==
  (~primeUrls /\ rootDoc.state # "ok") =>
    /\ \A t \in Tasks : tpc[t] = "idle" /\ gets[t] = 0
    /\ status # "running" => (status = "returned" /\ errorPrinted)

\* ------------------------------------------------------------------ C9
\* C9: after sort.Sort, an entry of higher priority stands before every entry of
\* lower priority.
C9_DescendingPriority ==
  Sorted =>
    \A i, j \in 1..Len(urlset.Url) :
      urlset.Url[i].Priority > urlset.Url[j].Priority => i < j

\* A leaf sitemap of three entries, the lowest first and the other two tied,
\* has been sorted.
C9_Witness ==
  /\ Sorted /\ Len(rootDoc.Url) = 3 /\ rootDoc.Sitemap = << >>
  /\ rootDoc.Url[1].Priority < rootDoc.Url[2].Priority
  /\ rootDoc.Url[2].Priority = rootDoc.Url[3].Priority
  /\ urlset.Url[3].Loc = <<0, 1>>

\* ----------------------------------------------------------------- C10
\* C10: with throttle 1, no local cache and max = 0, each entry of the sorted
\* collection gets exactly one GET, entry t's GET is issued only after entry
\* t-1's GET has returned, and the entries are in descending priority; print mode
\* prints the Locs of the sorted collection in its order, one per line.
C10_OrderedPriming ==
  /\ (throttle = 1 /\ ~localDir /\ max = 0 /\ PrimeCalled) =>
       /\ \A t \in Tasks : gets[t] <= 1 /\ (t > Len(urlset.Url) => gets[t] = 0)
       /\ \A t \in 2..Len(urlset.Url) :
            /\ gets[t] = 1 => GetCompleted(t - 1)
            /\ urlset.Url[t - 1].Priority >= urlset.Url[t].Priority
       /\ PrimeReturned => \A t \in 1..Len(urlset.Url) : gets[t] = 1
  /\ (printUrls /\ mainpc = "done" /\ ~err) =>
       /\ printed = [i \in 1..Len(urlset.Url) |-> urlset.Url[i].Loc]
       /\ \A i \in 2..Len(urlset.Url) :
            urlset.Url[i - 1].Priority >= urlset.Url[i].Priority
       /\ \A t \in Tasks : gets[t] = 0

\* /a (1), /b (2), /c (3) at throttle 1: /c was fetched, /b is in flight and /a
\* has not been dispatched.
C10_Witness ==
  /\ throttle = 1 /\ ~localDir /\ max = 0
  /\ Len(urlset.Url) = 3
  /\ urlset.Url[1].Loc = <<0, 3>> /\ urlset.Url[2].Loc = <<0, 2>>
  /\ tpc = <<"done", "inflight", "idle">>

\* ----------------------------------------------------------------- C11
\* C11: with throttle 1, when getUrlsFromSitemap returns for an index, the
\* collection is the root's own entries followed by the entries of the children
\* in the order the index declares them.
C11_DeclarationOrder ==
  (throttle = 1 /\ IsIndexRun /\ mainpc = "sort") =>
    urlset.Url = rootDoc.Url \o ChildUrlsFrom(1)

\* An index with entries of its own and two children that hold entries has been
\* resolved at throttle 1.
C11_Witness ==
  /\ throttle = 1 /\ IsIndexRun /\ mainpc = "sort" /\ status = "running"
  /\ Len(rootDoc.Sitemap) = 2 /\ Len(rootDoc.Url) > 0
  /\ \A c \in RootChildren : Len(ChildDoc(c).Url) > 0

\* ----------------------------------------------------------------- C12
\* C12: no sitemap entry found in a child document is ever fetched, and the only
\* fetches are that of the root and those of the sitemap entries of a root that
\* is an index.
C12_DepthOne ==
  /\ nested = 0
  /\ \A c \in Children : fetches[c] > 0 => (IsIndexRun /\ c \in RootChildren)

\* A child that holds a sitemap entry of its own has been fetched and merged.
C12_Witness ==
  /\ IsIndexRun /\ mainpc = "sort"
  /\ \E c \in RootChildren :
       Len(ChildDoc(c).Sitemap) > 0 /\ fetches[c] = 1 /\ cpc[c] = "done"

\* ----------------------------------------------------------------- C13
\* C13: with max = 0, primeUrlset never ends in a crash or an early exit, and
\* from any moment at which a GET has ended in a transport error or a non-200
\* status, every entry of the collection goes on to have its task dispatched and
\* brought past wg.Done, and primeUrlset returns.
C13_FailuresIndependent ==
  /\ []((max = 0 /\ PrimeCalled) => status \in {"running", "returned"})
  /\ ((max = 0 /\ \E t \in Tasks : res[t] \in {"non200", "error"})
        ~> (PrimeReturned /\ \A t \in 1..Len(urlset.Url) : tpc[t] \in {"release", "done"}))

\* Two GETs have just failed, one either way, while a third task is through.
C13_Witness ==
  /\ max = 0
  /\ \E t, v, w \in Tasks :
       /\ tpc[t] = "wgdone" /\ res[t] = "error"
       /\ tpc[v] = "wgdone" /\ res[v] = "non200"
       /\ tpc[w] = "done"

\* ----------------------------------------------------------------- C14
\* C14 (as claimed): the root location and every child location is fetched at
\* most once in a run, and every URL entry of the collection gets at most one GET.
C14_NoRetry ==
  /\ fetches[0] <= 1
  /\ \A l \in Children : FetchesOfLoc(l, 1) <= 1
  /\ \A t \in Tasks : gets[t] <= 1

\* C14 (amended): the root is fetched at most once, every sitemap entry of the
\* root is fetched at most once (a location the index names twice is fetched once
\* for each entry), and every URL entry of the collection gets at most one GET.
C14_NoRetryPerEntry ==
  /\ \A c \in 0..MaxChildren : fetches[c] <= 1
  /\ \A t \in Tasks : gets[t] <= 1

\* Both entries of an index that names one location twice have been fetched, and
\* a GET of the priming that followed has failed.
C14_Witness ==
  /\ rootDoc.Sitemap = <<1, 1>> /\ fetches = <<1, 1>> @@ (0 :> 1)
  /\ \E t \in Tasks : tpc[t] = "wgdone" /\ res[t] = "error" /\ gets[t] = 1

\* ----------------------------------------------------------------- C15
\* C15: maxStopper's count always equals the number of values the tasks have
\* sent on one, every step raises it by at most one, it never exceeds max, and
\* the exit happens at most once: only at count = max, and nothing follows it.
C15_CounterSerialized ==
  /\ [](count = SignalsSent(MaxUrls) /\ count <= max)
  /\ [][count' \in {count, count + 1}]_vars
  /\ [][(status' = "stopped" /\ status # "stopped") => (count = max /\ max > 0)]_vars
  /\ [][status = "stopped" => UNCHANGED vars]_vars

\* The limit of 2 has been reached by the signals of two tasks while a third,
\* whose GET has returned, waits to send its own.
C15_Witness ==
  /\ max = 2 /\ count = 2 /\ spc = "exiting"
  /\ \E t \in Tasks : tpc[t] = "signal"
  /\ \E t, v \in Tasks : t # v /\ signals[t] = 1 /\ signals[v] = 1

\* ----------------------------------------------------------------- C16
\* C16: when the look-up of a task meets a URL that does not parse or a file
\* check that fails, or when no local-cache directory is configured, the task
\* goes on to its GET, the run goes on and no other task is touched; without a
\* local-cache directory every task that has left the look-up has made its GET.
C16_PrefilterMiss ==
  /\ [][\A t \in Tasks :
          (tpc[t] = "start" /\ tpc'[t] # "start"
           /\ cache'[t] \in {"malformed", "missing", "none"})
          => /\ tpc'[t] = "inflight" /\ gets'[t] = gets[t] + 1
             /\ status' = "running"
             /\ \A v \in Tasks \ {t} : tpc'[v] = tpc[v] /\ gets'[v] = gets[v]]_vars
  /\ [](~localDir =>
          \A t \in Tasks : tpc[t] \notin {"idle", "start"} => gets[t] = 1)

\* With a local-cache directory configured, one task's URL did not parse and
\* another's file is missing: both have their GET in flight.
C16_Witness ==
  /\ localDir
  /\ \E t, v \in Tasks :
       /\ tpc[t] = "inflight" /\ cache[t] = "malformed" /\ gets[t] = 1
       /\ tpc[v] = "inflight" /\ cache[v] = "missing" /\ gets[v] = 1

\* ----------------------------------------------------------------- C17
\* C17 (as claimed): in audit mode a task has printed exactly one audit line once
\* its GET has returned, whatever the outcome, and none before.
C17_AuditLinePerAttempt ==
  audit =>
    \A t \in Tasks :
      /\ GetCompleted(t) => alog[t] = 1
      /\ ~GetCompleted(t) => alog[t] = 0

\* ----------------------------------------------------------------- C18
\* C18 (as claimed): in a run with -a no line is logged under verbose and no
\* warning is logged, at any point of the run.
C18_AuditSilencesLogs == audit => (vlog = 0 /\ wlog = 0)

\* ----------------------------------------------------------------- C19
\* C19: in urls mode nothing is fetched or decoded as a sitemap; the collection
\* has one entry per argument, in argument order, the entry's location being the
\* argument with "http://" before it when it has no scheme; print mode prints
\* these locations once each, in order, and requests nothing; otherwise each
\* entry gets one task and at most one GET, exactly one when primeUrlset returns
\* in a run without a local-cache directory.
C19_UrlsMode ==
  primeUrls =>
    /\ \A c \in 0..MaxChildren : fetches[c] = 0
    /\ nested = 0 /\ ch = << >> /\ \A c \in Children : cpc[c] = "idle"
    /\ mainpc \notin {"spawn", "merge", "sort"}
    /\ \A t \in Tasks : gets[t] <= 1 /\ (t > Len(args) => tpc[t] = "idle")
    /\ mainpc # "resolve" =>
         /\ Len(urlset.Url) = Len(args)
         /\ \A i \in 1..Len(args) :
              urlset.Url[i].Loc =
                <<IF args[i][1] = "" THEN "http://" ELSE args[i][1], args[i][2]>>
         /\ printUrls =>
              /\ printed = [i \in 1..Len(args) |-> urlset.Url[i].Loc]
              /\ \A t \in Tasks : tpc[t] = "idle" /\ gets[t] = 0
         /\ (PrimeReturned /\ ~localDir) => \A i \in 1..Len(args) : gets[i] = 1

\* Two arguments, the first without a scheme, have both been primed and
\* primeUrlset has returned.
C19_Witness ==
  /\ primeUrls /\ Len(args) = 2 /\ args[1][1] = "" /\ PrimeReturned
  /\ urlset.Url[1].Loc = <<"http://", 1>>
  /\ gets[1] = 1 /\ gets[2] = 1

\* ----------------------------------------------------------------- C20
\* C20 (as claimed): getUrlsFromSitemap(path, true) returns an error exactly when
\* the root document could not be fetched or decoded, and when the root is an
\* index the call does not fail whatever number of its children fail: it does
\* not crash in the merge loop.
C20_ParentFailsOnlyOnOwnFailure ==
  ~primeUrls =>
    /\ mainpc = "sort" => (err <=> rootDoc.state # "ok")
    /\ (IsIndexRun /\ mainpc = "merge") => status # "panic"

\* ----------------------------------------------------------------- C21
\* C21: a child goroutine gives its slot back exactly once, by the one step that
\* follows its delivery, and is then finished for good; whenever children hold
\* slots, those that succeeded and those that failed alike, a moment comes at
\* which every one of them has given its slot back, unless the process ends
\* first; and once all children have given theirs back and no priming task has
\* been started, sem is empty.
C21_ChildSlotReleased ==
  /\ [][\A c \in Children :
          /\ cpc[c] = "done" => cpc'[c] = "done"
          /\ (cpc'[c] = "done" /\ cpc[c] # "done") =>
               (cpc[c] = "release" /\ sem' = sem - 1)]_vars
  /\ []((\A c \in Children : ~ChildHolding(c)) /\ (\A t \in Tasks : tpc[t] = "idle")
          => sem = 0)
  /\ (\E c \in Children : ChildHolding(c))
       ~> ((\A c \in Children : cpc[c] \in {"idle", "done"}) \/ ~Running)

\* Of two children the one that failed and the one that succeeded have both
\* given their slots back, before main has taken their results from ch.
C21_Witness ==
  /\ Running /\ mainpc = "merge" /\ Len(ch) = 2 /\ sem = 0
  /\ \E c, d \in RootChildren :
       /\ ChildDoc(c).state = "ok" /\ cpc[c] = "done"
       /\ ChildDoc(d).state # "ok" /\ cpc[d] = "done"

\* ----------------------------------------------------------------- C22
\* C22 (as claimed): the step in which a child document is fetched and decoded
\* is taken while no slot is held for that child, and a merge step is taken
\* while no child holds a slot.
C22_DecodeMergeOutsideGate ==
  /\ [][\A c \in Children : fetches'[c] # fetches[c] => ~ChildHolding(c)]_vars
  /\ [][(mainpc = "merge" /\ Len(ch') < Len(ch)) =>
          \A c \in Children : ~ChildHolding(c)]_vars

\* C22 (amended): a child document is fetched, decoded and delivered on ch while
\* the slot taken for that child is held; a merge step is taken by main, which
\* takes and gives back no slot for it, whether or not children still hold
\* theirs; and a priming task holds its slot through its signal and its wg.Done.
C22_SlotCoversChildWork ==
  /\ [][\A c \in Children :
          fetches'[c] # fetches[c] =>
            /\ ChildHolding(c) /\ sem >= 1 /\ sem' = sem
            /\ ch' = Append(ch, ChildResult(ChildDoc(c)))]_vars
  /\ [][(mainpc = "merge" /\ Len(ch') < Len(ch)) => (sem' = sem /\ cpc' = cpc)]_vars
  /\ [][\A t \in Tasks :
          (signals'[t] # signals[t] \/ (tpc[t] = "wgdone" /\ tpc'[t] # "wgdone"))
          => (TaskHolding(t) /\ sem >= 1 /\ sem' = sem)]_vars

\* One child's result has been merged while the other child, which has decoded
\* and delivered, still holds its slot.
C22_Witness ==
  /\ mainpc = "merge" /\ idx = 1 /\ Len(urlset.Url) > 0 /\ sem = 1
  /\ \E c \in RootChildren : cpc[c] = "release" /\ fetches[c] = 1

\* ----------------------------------------------------------------- C23
\* C23: until the first merge the collection of an index is the root's own
\* entries; a child delivers by appending its result, its entries in document
\* order, at the tail of ch; each merge step appends the entries of the result
\* at the head of ch, unchanged and in one piece, to the collection; so the
\* resolved collection is the root's entries followed by the children's lists
\* in an order of delivery.
C23_CompletionOrder ==
  /\ []((IsIndexRun /\ (mainpc = "spawn" \/ (mainpc = "merge" /\ idx = 0)))
          => urlset.Url = rootDoc.Url)
  /\ [][\A c \in Children :
          fetches'[c] # fetches[c] =>
            /\ ch' = Append(ch, ChildResult(ChildDoc(c)))
            /\ ChildDoc(c).state = "ok" => ch'[Len(ch')].Url = ChildDoc(c).Url]_vars
  /\ [][(mainpc = "merge" /\ Len(ch') < Len(ch) /\ ~Head(ch).isNil) =>
          (urlset'.Url = urlset.Url \o Head(ch).Url /\ ch' = Tail(ch))]_vars
  /\ []((IsIndexRun /\ mainpc = "sort") =>
          \E p \in DeliveryOrders : urlset.Url = rootDoc.Url \o ChildUrlsIn(p, 1))

\* An index has been resolved with the second child's entries, more than one,
\* merged before the first child's.
C23_Witness ==
  /\ IsIndexRun /\ mainpc = "sort" /\ Len(rootDoc.Sitemap) = 2
  /\ Len(ChildDoc(1).Url) > 0 /\ Len(ChildDoc(2).Url) > 1
  /\ urlset.Url = rootDoc.Url \o ChildDoc(2).Url \o ChildDoc(1).Url

\* ----------------------------------------------------------------- C24
\* C24: a task whose look-up finds the cached file goes straight to wg.Done():
\* it makes no GET and the counter does not move; a task that made no GET has
\* sent no signal; the counter is the number of signals sent, and it is at most
\* the number of tasks whose GET has returned.
C24_HitNeverCounted ==
  /\ [][\A t \in Tasks :
          (tpc[t] = "start" /\ tpc'[t] # "start" /\ found'[t]) =>
            (tpc'[t] = "wgdone" /\ gets' = gets /\ signals' = signals
             /\ count' = count)]_vars
  /\ [](\A t \in Tasks : gets[t] = 0 => signals[t] = 0)
  /\ [](count = SignalsSent(MaxUrls))
  /\ [](count <= Cardinality({ t \in Tasks : GetCompleted(t) }))

\* With a limit of 2, one task has finished on a cache hit and another after a
\* GET: the counter stands at 1.
C24_Witness ==
  /\ localDir /\ max = 2 /\ count = 1
  /\ \E t, v \in Tasks :
       /\ tpc[t] = "done" /\ gets[t] = 0 /\ signals[t] = 0
       /\ tpc[v] = "done" /\ gets[v] = 1 /\ signals[v] = 1

\* ----------------------------------------------------------------- C25
\* C25: the task of an entry is spawned in the step that acquires its slot, one
\* entry per step and the entry the loop stands at; the entries whose task has
\* been spawned are at every moment the first ones of the collection, and while
\* the loop runs they are exactly the entries before the one it stands at.
C25_DispatchInOrder ==
  /\ [][\A t \in Tasks :
          (tpc[t] = "idle" /\ tpc'[t] # "idle") =>
            /\ mainpc = "dispatch" /\ t = idx
            /\ sem' = sem + 1 /\ tpc'[t] = "start"
            /\ \A u \in Tasks \ {t} : tpc'[u] = tpc[u]]_vars
  /\ [](\A t \in Tasks : tpc[t] # "idle" => \A u \in 1..(t - 1) : tpc[u] # "idle")
  /\ [](mainpc = "dispatch" => { t \in Tasks : tpc[t] # "idle" } = 1..(idx - 1))

\* With a gate of 2 and three entries, the tasks of the first two entries have
\* been spawned and hold the slots; the loop waits at the third.
C25_Witness ==
  /\ throttle = 2 /\ sem = 2 /\ mainpc = "dispatch" /\ idx = 3
  /\ Len(urlset.Url) = 3
  /\ TaskHolding(1) /\ TaskHolding(2) /\ tpc[3] = "idle"

\* ----------------------------------------------------------------- C26
\* C26: while main resolves, merges or sorts, no priming task exists and no
\* priming GET has been made; a result is taken from ch only while no task
\* exists; and once a task exists in a run on an index, every child of the index
\* has been fetched and has delivered, ch is empty and the collection holds the
\* root's entries and every child's.
C26_ResolveThenPrime ==
  /\ [](mainpc \in {"resolve", "spawn", "merge", "sort"} =>
          \A t \in Tasks : tpc[t] = "idle" /\ gets[t] = 0)
  /\ [][Len(ch') # Len(ch) => \A t \in Tasks : tpc[t] = "idle" /\ tpc'[t] = "idle"]_vars
  /\ []((IsIndexRun /\ \E t \in Tasks : tpc[t] # "idle" \/ gets[t] > 0) =>
          /\ ch = << >>
          /\ \A c \in RootChildren : cpc[c] \in {"release", "done"} /\ fetches[c] = 1
          /\ Len(urlset.Url) = Len(rootDoc.Url) + Len(ChildUrlsFrom(1)))

\* The first GET of the priming phase is in flight while a child of the index,
\* whose result has been merged, has not given its slot back yet.
C26_Witness ==
  /\ IsIndexRun /\ Len(rootDoc.Sitemap) = 2 /\ mainpc = "dispatch"
  /\ tpc[1] = "inflight" /\ gets[1] = 1
  /\ \E c \in RootChildren : cpc[c] = "release"

\* ----------------------------------------------------------------- C27
\* C27: wg is never negative and is 0 until primeUrlset is called; from then on
\* it is the number of URL entries less the tasks that have called wg.Done(), so
\* it stands at the number of entries while no task is spawned; it only falls by
\* one, in the wg.Done() step of one task, whatever that task met; and it is 0
\* in primeUrlset only when the task of every entry has called wg.Done().
C27_WaitCounter ==
  /\ [](wg >= 0 /\ (~PrimeCalled => wg = 0))
  /\ [](PrimeCalled =>
          wg = Len(urlset.Url)
                 - Cardinality({ t \in Tasks : tpc[t] \in {"release", "done"} }))
  /\ [][wg' < wg =>
          /\ wg' = wg - 1
          /\ \E t \in Tasks :
               /\ tpc[t] = "wgdone" /\ tpc'[t] = "release"
               /\ \A u \in Tasks \ {t} : tpc'[u] = tpc[u]]_vars
  /\ []((PrimeCalled /\ wg = 0) =>
          \A t \in 1..Len(urlset.Url) : tpc[t] \in {"release", "done"})

\* Of three entries one task has finished on a cache hit and one after its GET;
\* the third has its GET in flight and wg stands at 1.
C27_Witness ==
  /\ localDir /\ Len(urlset.Url) = 3 /\ wg = 1 /\ mainpc = "wait"
  /\ \E t, v, w \in Tasks :
       /\ tpc[t] = "done" /\ gets[t] = 0
       /\ tpc[v] = "done" /\ gets[v] = 1
       /\ tpc[w] = "inflight"

\* ----------------------------------------------------------------- C28
\* C28: with throttle >= 1, as long as the process runs some goroutine can take
\* a step, so it is never the case that all are blocked on sem, ch or one; the
\* process eventually ends; and a run that has called primeUrlset ends either by
\* primeUrlset returning, every task past its wg.Done(), or by maxStopper's exit.
C28_Terminates ==
  /\ []((throttle >= 1 /\ Running) => ENABLED Next)
  /\ []((throttle >= 1 /\ PrimeCalled /\ ~Running) =>
          \/ status = "stopped" /\ Triggered /\ max > 0
          \/ /\ status = "returned" /\ PrimeReturned /\ wg = 0
             /\ \A t \in 1..Len(urlset.Url) : tpc[t] \in {"release", "done"})
  /\ (throttle >= 1) ~> ~Running

\* With a gate of 1 and a limit of 1 the process has been stopped by maxStopper
\* while the dispatcher was waiting for the slot of the second entry.
C28_Witness ==
  /\ throttle = 1 /\ max = 1 /\ status = "stopped"
  /\ mainpc = "dispatch" /\ idx = 2 /\ sem = 1
  /\ TaskHolding(1)

\* ----------------------------------------------------------------- C29
\* C29: with throttle 0 sem never holds a value, no child goroutine and no
\* priming task is ever started and no child location is fetched; and once main
\* stands at a sem <- true, in the spawn loop or in the dispatch loop, the
\* process is running and no goroutine can ever take a step.
C29_ZeroGateBlocks ==
  /\ [](throttle = 0 =>
          /\ sem = 0
          /\ \A c \in Children : cpc[c] = "idle" /\ fetches[c] = 0
          /\ \A t \in Tasks : tpc[t] = "idle" /\ gets[t] = 0)
  /\ []((throttle = 0 /\ mainpc \in {"spawn", "dispatch"}) =>
          (Running /\ ~ENABLED Next))

\* With throttle 0 the dispatcher stands at the sem <- true of the first of
\* three entries, wg at 3, maxStopper waiting on one.
C29_Witness ==
  /\ throttle = 0 /\ mainpc = "dispatch" /\ idx = 1 /\ wg = 3
  /\ max > 0 /\ spc = "recv" /\ Running

\* ----------------------------------------------------------------- C30
\* C30 (as claimed): with max > 0, while fewer than max tasks lacked a cache hit
\* maxStopper has not reached its exit; and a run that has called primeUrlset
\* comes to primeUrlset's return, the task of every entry past its wg.Done(),
\* unless max tasks lack a cache hit.
C30_BelowLimitCompletes ==
  /\ []((max > 0 /\ Cardinality(Misses) < max) =>
          (~Triggered /\ status # "stopped" /\ count < max))
  /\ (PrimeCalled /\ max > 0)
       ~> ((PrimeReturned /\ \A t \in 1..Len(urlset.Url) : tpc[t] \in {"release", "done"})
           \/ Cardinality(Misses) >= max)

\* C30 (amended): with max > 0, while fewer than max tasks lacked a cache hit
\* maxStopper has not reached its exit; and with throttle >= 1 a run that has
\* called primeUrlset comes to primeUrlset's return, the task of every entry
\* past its wg.Done(), unless max tasks lack a cache hit.
C30_BelowLimitCompletesThrottled ==
  /\ []((max > 0 /\ Cardinality(Misses) < max) =>
          (~Triggered /\ status # "stopped" /\ count < max))
  /\ (PrimeCalled /\ max > 0 /\ throttle >= 1)
       ~> ((PrimeReturned /\ \A t \in 1..Len(urlset.Url) : tpc[t] \in {"release", "done"})
           \/ Cardinality(Misses) >= max)

\* With a limit of 2, two of three entries met their cached file and one did
\* not: the counter stands at 1 and main has returned from primeUrlset.
C30_Witness ==
  /\ max = 2 /\ localDir /\ Len(urlset.Url) = 3 /\ count = 1 /\ spc = "recv"
  /\ PrimeReturned /\ status = "returned"
  /\ Cardinality(Misses) = 1
  /\ \A t \in Tasks : tpc[t] \in {"release", "done"}

\* ----------------------------------------------------------------- C31
\* C31: with max > 0 and throttle >= 1 the priming GETs issued are at every
\* moment the signals maxStopper has counted plus the tasks that have made their
\* GET and not yet signalled; the former are at most max, the latter hold a slot
\* each, so the GETs issued never exceed max + throttle; and once maxStopper has
\* counted max, a task at its one <- true stays there, its slot held.
C31_RequestBound ==
  /\ []((max > 0 /\ throttle >= 1) =>
          /\ GetsIssued(MaxUrls) =
               count + Cardinality({ t \in Tasks : tpc[t] \in {"inflight", "signal"} })
          /\ count <= max
          /\ Cardinality({ t \in Tasks : tpc[t] \in {"inflight", "signal"} }) <= throttle
          /\ GetsIssued(MaxUrls) <= max + throttle)
  /\ [][(max > 0 /\ throttle >= 1 /\ count = max) =>
          \A t \in Tasks :
            tpc[t] = "signal" => (tpc'[t] = "signal" /\ sem >= 1 /\ sem' >= 1)]_vars

\* With a limit of 1 and a gate of 2, three GETs have been issued: the first
\* task has signalled and finished, and the two tasks dispatched since are
\* blocked at their one <- true, each holding its slot, maxStopper about to exit.
C31_Witness ==
  /\ max = 1 /\ throttle = 2 /\ Running /\ spc = "exiting" /\ count = 1
  /\ GetsIssued(MaxUrls) = 3 /\ sem = 2
  /\ Cardinality({ t \in Tasks : tpc[t] = "signal" }) = 2

====
